---- MODULE Spec2Model ----
(***************************************************************************)
(* Model of add_tellread_index_to_fastq.py: the merge loop of main() that  *)
(* walks the R1, R2 and I1 FastQ streams in lock-step, compares the        *)
(* sequence IDs, appends the index sequence to the R1/R2 headers and       *)
(* writes the two output files.                                            *)
(*                                                                         *)
(* Strings are sequences of one-character strings, so that split(' '),     *)
(* concatenation and the 4-line output format are computed, not assumed.   *)
(***************************************************************************)
EXTENDS Integers, Sequences, FiniteSets, TLC

VARIABLES
    R1_file, R2_file, I1_file,      \* records the three FastqGeneralIterators yield
    args_index_tag,                 \* args.index_tag: <<>> is False (flag omitted), <<t>> is tag t
    index_tag,                      \* the resolved tag
    handles,                        \* state of the five file handles
    pos,                            \* records pulled so far from each input iterator
    header_R1, seq_R1, qual_R1,     \* loop locals
    header_R2, seq_R2, qual_R2,
    header_I1, seq_I1, qual_I1,
    id_R1, id_R2, id_I1,
    R1_out, R2_out,                 \* text written to the two output files
    errlog,                         \* logger.error messages
    pc,                             \* position in main()
    exit_code                       \* process exit status, -1 while running

vars == << R1_file, R2_file, I1_file, args_index_tag, index_tag, handles, pos,
           header_R1, seq_R1, qual_R1, header_R2, seq_R2, qual_R2,
           header_I1, seq_I1, qual_I1, id_R1, id_R2, id_I1,
           R1_out, R2_out, errlog, pc, exit_code >>

locals == << header_R1, seq_R1, qual_R1, header_R2, seq_R2, qual_R2,
             header_I1, seq_I1, qual_I1, id_R1, id_R2, id_I1 >>

inputs == << R1_file, R2_file, I1_file, args_index_tag >>

-----------------------------------------------------------------------------
(* Bounds *)

\* longest input stream, in records
MaxRecords == 2

\* longest header of the header-parsing specification
MaxHeaderLen == 4

-----------------------------------------------------------------------------
(* Program constants and input alphabets *)

DEFAULT_INDEX_TAG == << "B", "C", ":", "Z" >>

\* tags a user may pass with -x; the empty string is a tag, not an omitted flag
UserTags == { << "R", "X" >>, << >> }

\* a local that has not been assigned yet
Unbound == << "<unbound>" >>

Streams == { "R1", "R2", "I1" }

HandleNames == { "R1_handle", "R2_handle", "I1_handle",
                 "R1_output_handle", "R2_output_handle" }

Rec(h, s, q) == [ header |-> h, seq |-> s, qual |-> q ]

R1Records ==
    { Rec(<< "a", " ", "1" >>, << "A", "C" >>, << "I", "J" >>),
      Rec(<< "b" >>,           << >>,          << >>) }

R2Records ==
    { Rec(<< "a", " ", "2" >>, << "T" >>,      << "K" >>),
      Rec(<< "b" >>,           << "T", "A" >>, << "K", "L" >>) }

I1Records ==
    { Rec(<< "a" >>,           << "G" >>,      << "#" >>),
      Rec(<< "b", " ", "3" >>, << "G", "T" >>, << "#", "#" >>) }

HeaderChars == { "a", "b", " " }

SeqsUpTo(S, n) == UNION { [ 1..k -> S ] : k \in 0..n }

-----------------------------------------------------------------------------
(* Pure functions of the loop body *)

\* str.split(sep): scan left to right, closing a piece at every separator
RECURSIVE SplitScan(_, _, _, _)
SplitScan(s, sep, i, piece) ==
    IF i > Len(s) THEN << piece >>
    ELSE IF s[i] = sep
         THEN << piece >> \o SplitScan(s, sep, i + 1, << >>)
         ELSE SplitScan(s, sep, i + 1, Append(piece, s[i]))

split(s, sep) == SplitScan(s, sep, 1, << >>)

\* slip: the last piece of the split instead of the first
GetId_LastPiece(header) == split(header, " ")[Len(split(header, " "))]

\* header.split(' ')[0]
GetId(header) == split(header, " ")[1]

\* the abort condition of the ID check
IdsDiffer(a, b, c) == a /= a \/ a /= c

\* slip: the separating space is left out
AugmentHeader_NoSpace(header, tag, seq) == header \o tag \o << ":" >> \o seq

\* header + ' ' + index_tag + ':' + seq_I1
AugmentHeader(header, tag, seq) == header \o << " " >> \o tag \o << ":" >> \o seq

\* slip: the sequence is written on the quality line
FastqText_SeqAsQual(header, seq, qual) ==
    << "@" >> \o header \o << "\n" >> \o seq \o << "\n", "+", "\n" >> \o seq \o << "\n" >>

\* '@{header}\n{seq}\n+\n{qual}\n'.format(...)
FastqText(header, seq, qual) ==
    << "@" >> \o header \o << "\n" >> \o seq \o << "\n", "+", "\n" >> \o qual \o << "\n" >>

\* slip: the iterator stops one record early
Exhausted_OneEarly(file, p) == p + 1 >= Len(file)

\* an iterator that has yielded p records of file has nothing left
Exhausted(file, p) == p >= Len(file)

-----------------------------------------------------------------------------
(* Initial states *)

InitRun ==
    /\ index_tag = Unbound
    /\ handles = [ h \in HandleNames |-> "unopened" ]
    /\ pos = [ s \in Streams |-> 0 ]
    /\ header_R1 = Unbound /\ seq_R1 = Unbound /\ qual_R1 = Unbound
    /\ header_R2 = Unbound /\ seq_R2 = Unbound /\ qual_R2 = Unbound
    /\ header_I1 = Unbound /\ seq_I1 = Unbound /\ qual_I1 = Unbound
    /\ id_R1 = Unbound /\ id_R2 = Unbound /\ id_I1 = Unbound
    /\ R1_out = << >>
    /\ R2_out = << >>
    /\ errlog = << >>
    /\ pc = "start"
    /\ exit_code = -1

Init ==
    /\ R1_file \in SeqsUpTo(R1Records, MaxRecords)
    /\ R2_file \in SeqsUpTo(R2Records, MaxRecords)
    /\ I1_file \in SeqsUpTo(I1Records, MaxRecords)
    /\ args_index_tag \in { << >> } \cup { << t >> : t \in UserTags }
    /\ InitRun

\* one-record streams whose R1 header ranges over every string up to MaxHeaderLen
InitHeader ==
    /\ \E h \in SeqsUpTo(HeaderChars, MaxHeaderLen) :
           R1_file = << Rec(h, << "A" >>, << "I" >>) >>
    /\ \E h \in { << "a" >>, << >> } :
           /\ R2_file = << Rec(h, << "T" >>, << "K" >>) >>
           /\ I1_file = << Rec(h, << "G" >>, << "#" >>) >>
    /\ args_index_tag = << >>
    /\ InitRun

-----------------------------------------------------------------------------
(* Steps of main() *)

\* set the index tag and open the five file handles
Start ==
    /\ pc = "start"
    /\ index_tag' = IF args_index_tag = << >> THEN DEFAULT_INDEX_TAG
                    ELSE args_index_tag[1]
    /\ handles' = [ h \in HandleNames |-> "open" ]
    /\ pc' = "loop"
    /\ UNCHANGED << inputs, pos, locals, R1_out, R2_out, errlog, exit_code >>

\* one step of zip(): pull from R1, R2, I1 in that order; the first exhausted
\* iterator ends the loop, the items already pulled in this step are dropped
Advance ==
    /\ pc = "loop"
    /\ IF Exhausted(R1_file, pos["R1"])
       THEN /\ pc' = "close"
            /\ UNCHANGED << pos, header_R1, seq_R1, qual_R1, header_R2, seq_R2,
                            qual_R2, header_I1, seq_I1, qual_I1 >>
       ELSE IF Exhausted(R2_file, pos["R2"])
       THEN /\ pc' = "close"
            /\ pos' = [ pos EXCEPT !["R1"] = @ + 1 ]
            /\ UNCHANGED << header_R1, seq_R1, qual_R1, header_R2, seq_R2,
                            qual_R2, header_I1, seq_I1, qual_I1 >>
       ELSE IF Exhausted(I1_file, pos["I1"])
       THEN /\ pc' = "close"
            /\ pos' = [ pos EXCEPT !["R1"] = @ + 1, !["R2"] = @ + 1 ]
            /\ UNCHANGED << header_R1, seq_R1, qual_R1, header_R2, seq_R2,
                            qual_R2, header_I1, seq_I1, qual_I1 >>
       ELSE /\ pc' = "check"
            /\ pos' = [ s \in Streams |-> pos[s] + 1 ]
            /\ header_R1' = R1_file[pos["R1"] + 1].header
            /\ seq_R1' = R1_file[pos["R1"] + 1].seq
            /\ qual_R1' = R1_file[pos["R1"] + 1].qual
            /\ header_R2' = R2_file[pos["R2"] + 1].header
            /\ seq_R2' = R2_file[pos["R2"] + 1].seq
            /\ qual_R2' = R2_file[pos["R2"] + 1].qual
            /\ header_I1' = I1_file[pos["I1"] + 1].header
            /\ seq_I1' = I1_file[pos["I1"] + 1].seq
            /\ qual_I1' = I1_file[pos["I1"] + 1].qual
    /\ UNCHANGED << inputs, index_tag, handles, id_R1, id_R2, id_I1,
                    R1_out, R2_out, errlog, exit_code >>

\* slip: the failed check exits with status 0
CheckIds_ExitZero ==
    /\ pc = "check"
    /\ id_R1' = GetId(header_R1)
    /\ id_R2' = GetId(header_R2)
    /\ id_I1' = GetId(header_I1)
    /\ IF id_R1' /= id_R1' \/ id_R1' /= id_I1'
       THEN /\ errlog' = errlog \o << << "FastQ records do not match! Exiting..." >>,
                                      << "R1: " >> \o id_R1',
                                      << "R2: " >> \o id_R2',
                                      << "I1: " >> \o id_I1' >>
            /\ exit_code' = 0
            /\ pc' = "exited"
       ELSE /\ pc' = "augment"
            /\ UNCHANGED << errlog, exit_code >>
    /\ UNCHANGED << inputs, index_tag, handles, pos, header_R1, seq_R1, qual_R1,
                    header_R2, seq_R2, qual_R2, header_I1, seq_I1, qual_I1,
                    R1_out, R2_out >>

\* check the sequence IDs match; sys.exit(1) if the check fails
CheckIds ==
    /\ pc = "check"
    /\ id_R1' = GetId(header_R1)
    /\ id_R2' = GetId(header_R2)
    /\ id_I1' = GetId(header_I1)
    /\ IF IdsDiffer(id_R1', id_R2', id_I1')
       THEN /\ errlog' = errlog \o << << "FastQ records do not match! Exiting..." >>,
                                      << "R1: " >> \o id_R1',
                                      << "R2: " >> \o id_R2',
                                      << "I1: " >> \o id_I1' >>
            /\ exit_code' = 1
            /\ pc' = "exited"
       ELSE /\ pc' = "augment"
            /\ UNCHANGED << errlog, exit_code >>
    /\ UNCHANGED << inputs, index_tag, handles, pos, header_R1, seq_R1, qual_R1,
                    header_R2, seq_R2, qual_R2, header_I1, seq_I1, qual_I1,
                    R1_out, R2_out >>

\* add the I1 sequence to the R1/R2 header
Augment ==
    /\ pc = "augment"
    /\ header_R1' = AugmentHeader(header_R1, index_tag, seq_I1)
    /\ header_R2' = AugmentHeader(header_R2, index_tag, seq_I1)
    /\ pc' = "write_R1"
    /\ UNCHANGED << inputs, index_tag, handles, pos, seq_R1, qual_R1, seq_R2, qual_R2,
                    header_I1, seq_I1, qual_I1, id_R1, id_R2, id_I1,
                    R1_out, R2_out, errlog, exit_code >>

\* slip: the read-1 record is written twice
WriteR1_Twice ==
    /\ pc = "write_R1"
    /\ R1_out' = R1_out \o FastqText(header_R1, seq_R1, qual_R1)
                        \o FastqText(header_R1, seq_R1, qual_R1)
    /\ pc' = "write_R2"
    /\ UNCHANGED << inputs, index_tag, handles, pos, locals, R2_out, errlog, exit_code >>

\* write the augmented read-1 record
WriteR1 ==
    /\ pc = "write_R1"
    /\ R1_out' = R1_out \o FastqText(header_R1, seq_R1, qual_R1)
    /\ pc' = "write_R2"
    /\ UNCHANGED << inputs, index_tag, handles, pos, locals, R2_out, errlog, exit_code >>

\* slip: the read-2 record of a triplet whose read-1 sequence is empty is not written
WriteR2_SkipEmpty ==
    /\ pc = "write_R2"
    /\ R2_out' = IF seq_R1 = << >> THEN R2_out
                  ELSE R2_out \o FastqText(header_R2, seq_R2, qual_R2)
    /\ pc' = "loop"
    /\ UNCHANGED << inputs, index_tag, handles, pos, locals, R1_out, errlog, exit_code >>

\* write the augmented read-2 record
WriteR2 ==
    /\ pc = "write_R2"
    /\ R2_out' = R2_out \o FastqText(header_R2, seq_R2, qual_R2)
    /\ pc' = "loop"
    /\ UNCHANGED << inputs, index_tag, handles, pos, locals, R1_out, errlog, exit_code >>

\* close the files
Close ==
    /\ pc = "close"
    /\ handles' = [ h \in HandleNames |-> "closed" ]
    /\ pc' = "wrap_up"
    /\ UNCHANGED << inputs, index_tag, pos, locals, R1_out, R2_out, errlog, exit_code >>

\* wrap up; main() returns and the interpreter exits with status 0
Finish ==
    /\ pc = "wrap_up"
    /\ exit_code' = 0
    /\ pc' = "exited"
    /\ UNCHANGED << inputs, index_tag, handles, pos, locals, R1_out, R2_out, errlog >>

Next ==
    \/ Start
    \/ Advance
    \/ CheckIds
    \/ Augment
    \/ WriteR1
    \/ WriteR2
    \/ Close
    \/ Finish

Spec == Init /\ [][Next]_vars

\* single thread of control: a step that can be taken is taken
FairSpec == Init /\ [][Next]_vars /\ WF_vars(Next)

HeaderSpec == InitHeader /\ [][Next]_vars

-----------------------------------------------------------------------------
(* Vocabulary of the properties *)

Min2(a, b) == IF a <= b THEN a ELSE b

\* number of positions at which all three input streams hold a record
CommonLen == Min2(Len(R1_file), Min2(Len(R2_file), Len(I1_file)))

Terminated == pc = "exited"

RunState == IF Terminated THEN "TERMINATED" ELSE "RUNNING"

\* the tag the run is asked to use
RequestedTag == IF args_index_tag = << >> THEN << "B", "C", ":", "Z" >>
                ELSE args_index_tag[1]

\* the part of a header before its first space (the whole header if it has none)
FirstSpace(h) ==
    IF \E i \in 1..Len(h) : h[i] = " "
    THEN CHOOSE i \in 1..Len(h) : h[i] = " " /\ \A j \in 1..(i - 1) : h[j] /= " "
    ELSE Len(h) + 1

IdOf(h) == SubSeq(h, 1, FirstSpace(h) - 1)

\* the three records at position k carry one identifier
TripletMatches(k) ==
    /\ IdOf(R1_file[k].header) = IdOf(R2_file[k].header)
    /\ IdOf(R1_file[k].header) = IdOf(I1_file[k].header)
    /\ IdOf(R2_file[k].header) = IdOf(I1_file[k].header)

\* an output file read back: its lines, and its records of four lines each
Lines(text) == LET p == split(text, "\n") IN SubSeq(p, 1, Len(p) - 1)

NumWritten(text) == Len(Lines(text)) \div 4

\* the records of an output file: header (without the @ marker), sequence, quality
OutRecords(text) ==
    LET L == Lines(text)
    IN  [ k \in 1..(Len(L) \div 4) |->
            [ header |-> Tail(L[4 * k - 3]), seq |-> L[4 * k - 2], qual |-> L[4 * k] ] ]

WellFramed(text) ==
    LET L == Lines(text)
    IN  /\ Len(L) % 4 = 0
        /\ \A k \in 1..(Len(L) \div 4) :
               /\ Len(L[4 * k - 3]) >= 1
               /\ L[4 * k - 3][1] = "@"
               /\ L[4 * k - 1] = << "+" >>

Chars(text) == { text[i] : i \in 1..Len(text) }

\* the text the first n triplets should have produced for the reads of file
RECURSIVE ExpectedText(_, _)
ExpectedText(file, n) ==
    IF n = 0 THEN << >>
    ELSE ExpectedText(file, n - 1)
         \o << "@" >> \o file[n].header \o << " " >> \o RequestedTag \o << ":" >>
         \o I1_file[n].seq \o << "\n" >>
         \o file[n].seq \o << "\n", "+", "\n" >>
         \o file[n].qual \o << "\n" >>

\* triplets whose processing is complete
TripletsDone ==
    IF pc \in { "check", "augment", "write_R1", "write_R2" }
           \/ (Terminated /\ exit_code = 1)
    THEN pos["I1"] - 1
    ELSE pos["I1"]

-----------------------------------------------------------------------------
(* Properties *)

\* C1: every pair of records written to the outputs comes from a triplet whose
\* three identifiers (read-1, read-2, index) are all equal, because a triplet in
\* which any two of them differ aborts the run.
C1_WrittenTripletsMatch ==
    \A k \in 1..NumWritten(R1_out) : TripletMatches(k)

\* C2: when triplet k is the first whose identifiers differ, the run ends with
\* a non-zero status and each output holds exactly the k-1 records of the
\* triplets before it.
C2_FailFast ==
    Terminated =>
        \A k \in 1..CommonLen :
            (~TripletMatches(k) /\ \A j \in 1..(k - 1) : TripletMatches(j)) =>
                /\ exit_code = 1
                /\ NumWritten(R1_out) = k - 1
                /\ NumWritten(R2_out) = k - 1

\* C3: the header of every written read-1 and read-2 record is exactly
\* H + " " + T + ":" + S, where H is the input header, S the index sequence of
\* the same triplet and T the user's tag, or BC:Z when the flag is omitted.
C3_TagPlacement ==
    LET out1 == OutRecords(R1_out)
        out2 == OutRecords(R2_out)
    IN  /\ \A k \in DOMAIN out1 :
               out1[k].header =
                   R1_file[k].header \o << " " >> \o RequestedTag \o << ":" >> \o I1_file[k].seq
        /\ \A k \in DOMAIN out2 :
               out2[k].header =
                   R2_file[k].header \o << " " >> \o RequestedTag \o << ":" >> \o I1_file[k].seq

C3_Witness ==
    /\ NumWritten(R1_out) = 2
    /\ NumWritten(R2_out) = 2
    /\ args_index_tag = << >>
    /\ R1_file[1].header /= R2_file[1].header
    /\ I1_file[1].seq /= I1_file[2].seq

\* C4: the sequence and quality strings of every written read-1 / read-2 record
\* are those of the input record; only the header line differs, and the index
\* record's quality string is written nowhere.
C4_RoundTrip ==
    LET out1 == OutRecords(R1_out)
        out2 == OutRecords(R2_out)
    IN  /\ WellFramed(R1_out)
        /\ WellFramed(R2_out)
        /\ \A k \in DOMAIN out1 :
               /\ out1[k].seq = R1_file[k].seq
               /\ out1[k].qual = R1_file[k].qual
        /\ \A k \in DOMAIN out2 :
               /\ out2[k].seq = R2_file[k].seq
               /\ out2[k].qual = R2_file[k].qual
        /\ "#" \notin Chars(R1_out) \cup Chars(R2_out)

C4_Witness ==
    /\ NumWritten(R1_out) >= 1
    /\ NumWritten(R2_out) >= 1
    /\ R1_file[1].seq /= << >>
    /\ R1_file[1].seq /= R1_file[1].qual
    /\ I1_file[1].qual /= << >>

\* C5: when the identifiers match at every common position, the run emits
\* exactly min(n1, n2, n3) pairs, reports no error and ends normally.
C5_ShortestStream ==
    (Terminated /\ \A k \in 1..CommonLen : TripletMatches(k)) =>
        /\ exit_code = 0
        /\ errlog = << >>
        /\ NumWritten(R1_out) = CommonLen
        /\ NumWritten(R2_out) = CommonLen

C5_Witness ==
    /\ Terminated
    /\ Len(R1_file) = 2 /\ Len(R2_file) = 2 /\ Len(I1_file) = 1
    /\ TripletMatches(1)
    /\ NumWritten(R1_out) = 1

\* C6: at every point of the run each output is the concatenation, in input
\* order, of the records derived from the triplets processed so far: record k
\* comes from input record k and index record k, none reordered, duplicated or
\* skipped.
C6_OutputOrder ==
    LET n1 == NumWritten(R1_out)
        n2 == NumWritten(R2_out)
    IN  /\ n2 = TripletsDone
        /\ n1 = IF pc = "write_R2" THEN TripletsDone + 1 ELSE TripletsDone
        /\ R1_out = ExpectedText(R1_file, n1)
        /\ R2_out = ExpectedText(R2_file, n2)

C6_Witness ==
    /\ NumWritten(R1_out) = 2
    /\ NumWritten(R2_out) = 2
    /\ R1_file[1] /= R1_file[2]
    /\ R2_file[1] /= R2_file[2]
    /\ I1_file[1] /= I1_file[2]

\* C7: in every terminated state, the fatal one included, none of the five
\* handles is still open.
C7_HandlesReleased ==
    Terminated => \A h \in HandleNames : handles[h] /= "open"

\* C8: every run terminates; a terminated run has status 0 and consumed every
\* common triplet, or has status 1 and stopped at a triplet whose identifiers
\* differ; a run that has not terminated has no status.
C8_Outcome ==
    /\ RunState \in { "RUNNING", "TERMINATED" }
    /\ ~Terminated => exit_code = -1
    /\ Terminated =>
           \/ exit_code = 0 /\ pos["I1"] = CommonLen
           \/ exit_code = 1 /\ pos["I1"] >= 1 /\ ~TripletMatches(pos["I1"])

C9_IdentifierExtraction ==
    (pc = "augment" \/ (Terminated /\ exit_code = 1)) =>
        /\ id_R1 = IdOf(header_R1)
        /\ id_R2 = IdOf(header_R2)
        /\ id_I1 = IdOf(header_I1)
        /\ (" " \notin Chars(header_R1)) => id_R1 = header_R1
        /\ (Len(header_R1) >= 1 /\ header_R1[1] = " ") => id_R1 = << >>

C9_Witness ==
    /\ pc = "augment"
    /\ header_R1 = << "a", " ", "b", " " >>
    /\ id_R1 = << "a" >>

\* C10: the read-1 output holds as many records as the read-2 output, or one
\* more; in every terminated state the two counts are equal.
C10_LockStep ==
    LET n1 == NumWritten(R1_out)
        n2 == NumWritten(R2_out)
    IN  /\ n1 = n2 \/ n1 = n2 + 1
        /\ Terminated => n1 = n2

C10_Witness ==
    /\ pc = "write_R2"
    /\ NumWritten(R2_out) = 1
    /\ NumWritten(R1_out) = 2

====
